---- MODULE Spec2Model ----
(***************************************************************************)
(* A model of graphicsItems/ScatterPlotItem.py: the ScatterPlotItem        *)
(* collection, the SpotItem marker instances it materializes and the       *)
(* SpotPixmap glyph caches they use.                                       *)
(*                                                                         *)
(* Every method of ScatterPlotItem is an operator from the object's state  *)
(* (a record S holding the object's attributes) to the state it leaves     *)
(* behind.  A raised exception is the field exc of the result (the empty   *)
(* string: the call returned); the attributes a failing call had already   *)
(* changed stay changed.  The actions apply one public call to the         *)
(* attributes held in the VARIABLES.                                       *)
(*                                                                         *)
(* Coordinates and sizes are floats in the program and integers here; the  *)
(* half sizes of pointsAt (ss * 0.5) are compared after doubling both      *)
(* sides.  Objects (SpotItem, SpotPixmap) carry an id that stands for      *)
(* their identity: a new object gets the least id no live reference holds. *)
(***************************************************************************)
EXTENDS Integers, Sequences, FiniteSets, TLC

VARIABLES
    data,          \* self.data: the rows of the record array (<<>> while None)
    dataNone,      \* self.data is None
    pointData,     \* self.pointData
    opts,          \* self.opts
    spots,         \* self.spots: the SpotItems, in creation order
    spotsValid,    \* self.spotsValid
    bounds,        \* self.bounds: per axis <<>> (None) or <<min, max>>
    _spotPixmap,   \* self._spotPixmap: <<>> (None) or <<the shared SpotPixmap>>
    ptsClicked,    \* self.ptsClicked
    op,            \* the public call made last
    exc,           \* the exception it raised ("" when it returned)
    ret,           \* what it returned
    emitted,       \* the signals it emitted, in order
    ev             \* the mouse event it was handed (its accepted flag)

vars == <<data, dataNone, pointData, opts, spots, spotsValid, bounds,
          _spotPixmap, ptsClicked, op, exc, ret, emitted, ev>>

-----------------------------------------------------------------------------
(* Bounds of the model *)

\* the longest point sequence one call passes
MaxPts == 2
\* materialization is not started when it would leave more SpotItems than this
MaxSpots == 2
\* addPoints is not called when it would leave more rows than this
MaxRows == 2

-----------------------------------------------------------------------------
(* Values *)

\* all sequences over S of length lo..hi
SeqsOf(S, lo, hi) == UNION {[1..n -> S] : n \in lo..hi}

\* the Python None where a string is stored
None == "None"

\* fn.mkPen: the QPen of a pen specification; a QPen is kept, None is NoPen
mkPen(a) ==
    CASE a = "grey" -> "QPen(grey)"
      [] a = "r" -> "QPen(r)"
      [] a = "g" -> "QPen(g)"
      [] a = None -> "QPen(NoPen)"
      [] OTHER -> a

\* fn.mkBrush: the QBrush of a brush specification
mkBrush(a) ==
    CASE a = "blue" -> "QBrush(blue)"
      [] a = "r" -> "QBrush(r)"
      [] a = "g" -> "QBrush(g)"
      [] a = None -> "QBrush(NoBrush)"
      [] OTHER -> a

\* an argument that is one value (list = FALSE) or a list/ndarray of values
One(v) == [list |-> FALSE, v |-> v, vs |-> <<>>]
Many(vs) == [list |-> TRUE, v |-> None, vs |-> vs]
OneNum(n) == [list |-> FALSE, v |-> n, vs |-> <<>>]
ManyNum(vs) == [list |-> TRUE, v |-> 0, vs |-> vs]

\* a value of self.pointData: None, a list of per-point objects, or any other object
PDNone == [kind |-> "none", vals |-> <<>>]
PDList(vs) == [kind |-> "list", vals |-> vs]
PDScalar == [kind |-> "scalar", vals |-> <<>>]

\* one row of np.empty(numPts, dtype=[x, y, size, symbol, pen, brush, spot]) after
\* lines 132-135; x and y hold whatever the fresh memory held (garbage)
EmptyRow(garbage) ==
    [x |-> garbage, y |-> garbage, size |-> -1, symbol |-> "", pen |-> None,
     brush |-> None, spot |-> 0]

\* what a call returns
RetNone == [kind |-> "None", spots |-> <<>>, val |-> <<>>]
RetSpots(s) == [kind |-> "spots", spots |-> s, val |-> <<>>]
RetPair(lo, hi) == [kind |-> "pair", spots |-> <<>>, val |-> <<lo, hi>>]
RetNonePair == [kind |-> "(None, None)", spots |-> <<>>, val |-> <<>>]
RetPercentiles(lo, hi) == [kind |-> "percentiles", spots |-> <<>>, val |-> <<lo, hi>>]
RetRect(x, y, w, h) == [kind |-> "rect", spots |-> <<>>, val |-> <<x, y, w, h>>]

PlotChanged == [sig |-> "sigPlotChanged", pts |-> <<>>]
Clicked(pts) == [sig |-> "sigClicked", pts |-> pts]

\* no mouse event; an event arrives not accepted, called is the last of ev.accept()
\* and ev.ignore() the handler called
NoEvent == [button |-> "none", accepted |-> FALSE, called |-> "none"]

-----------------------------------------------------------------------------
(* The object's attributes as one record *)

Self ==
    [data |-> data, dataNone |-> dataNone, pointData |-> pointData, opts |-> opts,
     spots |-> spots, spotsValid |-> spotsValid, bounds |-> bounds,
     _spotPixmap |-> _spotPixmap, ptsClicked |-> ptsClicked,
     exc |-> "", ret |-> RetNone, emitted |-> <<>>, ev |-> NoEvent]

\* the attributes and the outcome of a call become the next state
Commit(S) ==
    /\ data' = S.data
    /\ dataNone' = S.dataNone
    /\ pointData' = S.pointData
    /\ opts' = S.opts
    /\ spots' = S.spots
    /\ spotsValid' = S.spotsValid
    /\ bounds' = S.bounds
    /\ _spotPixmap' = S._spotPixmap
    /\ ptsClicked' = S.ptsClicked
    /\ exc' = S.exc
    /\ ret' = IF S.exc = "" THEN S.ret ELSE RetNone
    /\ emitted' = S.emitted
    /\ ev' = S.ev

Raise(S, e) == [S EXCEPT !.exc = e]

\* the ids live references hold: the SpotItems of self.spots and their SpotPixmaps,
\* the rows' spot back-references, the shared SpotPixmap, self.ptsClicked
UsedIds(S) ==
    {S.spots[i].id : i \in 1..Len(S.spots)}
        \cup {S.spots[i].spotPixmap.id : i \in 1..Len(S.spots)}
        \cup {S.data[i].spot : i \in 1..Len(S.data)}
        \cup {S._spotPixmap[i].id : i \in 1..Len(S._spotPixmap)}
        \cup {S.ptsClicked[i].id : i \in 1..Len(S.ptsClicked)}
        \cup {S.ptsClicked[i].spotPixmap.id : i \in 1..Len(S.ptsClicked)}

LeastUnused(used) ==
    CHOOSE n \in 1..(Cardinality(used) + 1) :
        /\ n \notin used
        /\ \A m \in 1..(n - 1) : m \in used

\* the identity of a newly constructed object
NewId(S, taken) == LeastUnused(UsedIds(S) \cup taken)

-----------------------------------------------------------------------------
(* SpotPixmap *)

\* the symbol codes int() converts (a string of digits or an integer), with their value
IntCodes == {"0", "1", "2", "3", "4", "5", "-1", "-5", "-6"}

IntValue(symbol) ==
    CASE symbol = "0" -> 0
      [] symbol = "1" -> 1
      [] symbol = "2" -> 2
      [] symbol = "3" -> 3
      [] symbol = "4" -> 4
      [] symbol = "5" -> 5
      [] symbol = "-1" -> -1
      [] symbol = "-5" -> -5
      [] symbol = "-6" -> -6

\* what a value becomes when it is stored in the 'S1' symbol column: its first character
S1(symbol) == IF symbol \in {"-1", "-5", "-6"} THEN "-" ELSE symbol

SymbolList == <<"o", "s", "t", "d", "+">>

\* SpotPixmap._setPath: the path of a symbol, or the exception for an unknown one
SpotPixmap_setPath(symbol) ==
    CASE symbol = "o" -> [exc |-> "", path |-> "ellipse"]
      [] symbol = "s" -> [exc |-> "", path |-> "rect"]
      [] symbol \in {"t", "^"} -> [exc |-> "", path |-> "triangle"]
      [] symbol = "d" -> [exc |-> "", path |-> "diamond"]
      [] symbol = "+" -> [exc |-> "", path |-> "plus"]
      [] OTHER -> [exc |-> "Exception: Unknown spot symbol", path |-> ""]

\* a Python list index as a position of SymbolList: -5..-1 count from the end
ListIndex(n) == IF n < 0 THEN n + Len(SymbolList) + 1 ELSE n + 1

\* line 618: ['o', 's', 't', 'd', '+'][symbol]
SymbolAt(k) ==
    IF k \in 1..Len(SymbolList)
    THEN [exc |-> "", symbol |-> SymbolList[k]]
    ELSE [exc |-> "IndexError: list index out of range", symbol |-> ""]

\* lines 611-619: the symbol _setSymbol stores, [exc, symbol]
StoredSymbol(symbol) ==
    IF symbol = None THEN [exc |-> "", symbol |-> "o"]
    ELSE IF symbol \in IntCodes THEN SymbolAt(ListIndex(IntValue(symbol)))
    ELSE [exc |-> "", symbol |-> symbol]

\* line 620: the path of the stored symbol
PathOfStored(st, p) == [exc |-> p.exc, symbol |-> st.symbol, path |-> p.path]

SetPathOfStored(st) ==
    IF st.exc # ""
    THEN [exc |-> st.exc, symbol |-> "", path |-> ""]
    ELSE PathOfStored(st, SpotPixmap_setPath(st.symbol))

\* SpotPixmap._setSymbol: [exc, symbol, path]
SpotPixmap_setSymbol(symbol) == SetPathOfStored(StoredSymbol(symbol))

\* SpotPixmap.__init__ once _setSymbol has run
SpotPixmap_init(id, pxMode, size, pen, brush, sy) ==
    [exc |-> sy.exc,
     pm |-> [id |-> id, pxMode |-> pxMode, size |-> size, pen |-> mkPen(pen),
             brush |-> mkBrush(brush), symbol |-> sy.symbol, path |-> sy.path]]

\* SpotPixmap.__init__: [exc, pm]
SpotPixmap(id, pxMode, size, pen, brush, symbol) ==
    SpotPixmap_init(id, pxMode, size, pen, brush, SpotPixmap_setSymbol(symbol))

-----------------------------------------------------------------------------
(* SpotItem *)

\* SpotItem.__init__ followed by setParentItem and setPos (mkSpot, lines 466-468)
SpotItem(id, spotPixmap, d, index, pos) ==
    [id |-> id, spotPixmap |-> spotPixmap, data |-> d, index |-> index,
     x |-> pos[1], y |-> pos[2], z |-> 0]

SpotItem_pen(s) == s.spotPixmap.pen
SpotItem_brush(s) == s.spotPixmap.brush
SpotItem_size(s) == s.spotPixmap.size
\* SpotItem.symbol reads spotPixmap.symbol, an attribute SpotPixmap does not have
SpotItem_symbol(s) == "AttributeError: 'SpotPixmap' object has no attribute 'symbol'"
SpotItem_path(s) == s.spotPixmap.path

\* the ways a caller can try to set the pen (or brush) of a SpotItem
SetterForms == {"item.setPen(pen)", "item.setPen = pen", "item.pen = pen"}

\* SpotItem.setPen, lines 724-727: '@pen.setter def setPen' binds the name setPen to a
\* property (getter of pen, this function as setter) and leaves pen read-only.
\* Calling item.setPen reads the QPen and calls it; assigning to item.setPen runs the
\* function, which calls the method setPen that SpotPixmap does not have.
SpotItem_setPen(S, k, form, pen) ==
    CASE form = "item.setPen(pen)" -> Raise(S, "TypeError: 'QPen' object is not callable")
      [] form = "item.setPen = pen" ->
            Raise(S, "AttributeError: 'SpotPixmap' object has no attribute 'setPen'")
      [] form = "item.pen = pen" -> Raise(S, "AttributeError: can't set attribute")

\* SpotItem.setBrush, lines 719-722, in the same three forms
SpotItem_setBrush(S, k, form, brush) ==
    CASE form = "item.setPen(pen)" ->
            Raise(S, "TypeError: 'QBrush' object is not callable")
      [] form = "item.setPen = pen" ->
            Raise(S, "AttributeError: 'SpotPixmap' object has no attribute 'setBrush'")
      [] form = "item.pen = pen" -> Raise(S, "AttributeError: can't set attribute")

-----------------------------------------------------------------------------
(* ScatterPlotItem: materialization *)

\* ScatterPlotItem.updateSpots
updateSpots(S) == [S EXCEPT !.spotsValid = FALSE]

\* clear without the reset of self.bounds (line 317)
clear_keepingBounds(S) ==
    [S EXCEPT !.spots = <<>>, !.data = <<>>, !.dataNone = TRUE, !.spotsValid = FALSE]

\* ScatterPlotItem.clear
clear(S) ==
    [S EXCEPT !.spots = <<>>, !.data = <<>>, !.dataNone = TRUE,
              !.spotsValid = FALSE, !.bounds = <<<<>>, <<>>>>]

\* spotPixmap returning None: [S, exc, pm] with pm = <<>>
NoPixmap(S) == [S |-> S, exc |-> "", pm |-> <<>>]

\* lines 452-455: the new SpotPixmap becomes the shared one
CachePixmap(S, new) ==
    IF new.exc # ""
    THEN [S |-> S, exc |-> new.exc, pm |-> <<>>]
    ELSE [S |-> [S EXCEPT !._spotPixmap = <<new.pm>>], exc |-> "", pm |-> <<new.pm>>]

\* ScatterPlotItem.spotPixmap: [S, exc, pm], pm = <<>> for None
spotPixmap(S) ==
    IF ~S.opts.identical
    THEN NoPixmap(S)
    ELSE IF S._spotPixmap = <<>>
    THEN CachePixmap(S, SpotPixmap(NewId(S, {}), S.opts.pxMode, S.opts.size, S.opts.pen,
                                   S.opts.brush, S.opts.symbol))
    ELSE [S |-> S, exc |-> "", pm |-> S._spotPixmap]

\* lines 466-469: the SpotItem of a SpotPixmap, [S, exc, item]
mkItem(S, pm, d, index, pos) ==
    [S |-> S, exc |-> "", item |-> <<SpotItem(NewId(S, {pm.id}), pm, d, index, pos)>>]

\* lines 465-469: the SpotItem of a SpotPixmap of its own
mkItemOwn(S, own, d, index, pos) ==
    IF own.exc # ""
    THEN [S |-> S, exc |-> own.exc, item |-> <<>>]
    ELSE mkItem(S, own.pm, d, index, pos)

\* lines 464-469, shared being what line 463 left
mkSpotWith(shared, pos, size, pxMode, brush, pen, d, symbol, index) ==
    IF shared.exc # ""
    THEN [S |-> shared.S, exc |-> shared.exc, item |-> <<>>]
    ELSE IF shared.pm = <<>>
    THEN mkItemOwn(shared.S,
                   SpotPixmap(NewId(shared.S, {}), pxMode, size, mkPen(pen), mkBrush(brush),
                              symbol),
                   d, index, pos)
    ELSE mkItem(shared.S, shared.pm[1], d, index, pos)

\* ScatterPlotItem.mkSpot: [S, exc, item]
mkSpot(S, pos, size, pxMode, brush, pen, d, symbol, index) ==
    mkSpotWith(IF pxMode THEN spotPixmap(S) ELSE NoPixmap(S),
               pos, size, pxMode, brush, pen, d, symbol, index)

\* line 379 without line 380: the size column as it is
ResolvedSize_raw(S, i) == S.data[i].size

\* the resolved columns of generateSpots, lines 379-389
ResolvedSize(S, i) == IF S.data[i].size < 0 THEN S.opts.size ELSE S.data[i].size
ResolvedPen(S, i) == IF S.data[i].pen = None THEN S.opts.pen ELSE S.data[i].pen
ResolvedBrush(S, i) == IF S.data[i].brush = None THEN S.opts.brush ELSE S.data[i].brush
ResolvedSymbol(S, i) ==
    IF S.data[i].symbol = "" THEN S1(S.opts.symbol) ELSE S.data[i].symbol

\* lines 400-403: the metadata of point i, [exc, val]
PointDataAt(S, i) ==
    CASE S.pointData.kind = "none" -> [exc |-> "", val |-> None]
      [] S.pointData.kind = "scalar" ->
            [exc |-> "TypeError: object is not subscriptable", val |-> None]
      [] OTHER ->
            IF i > Len(S.pointData.vals)
            THEN [exc |-> "IndexError: index out of bounds", val |-> None]
            ELSE [exc |-> "", val |-> S.pointData.vals[i]]

\* lines 417-418: the new SpotItem is appended and the row refers to it
AppendSpot(i, mk) ==
    IF mk.exc # ""
    THEN Raise(mk.S, mk.exc)
    ELSE [mk.S EXCEPT !.spots = Append(@, mk.item[1]), !.data[i].spot = mk.item[1].id]

\* lines 393-418: one pass of the loop, d being the metadata of point i
generateSpot(S, i, d) ==
    IF d.exc # ""
    THEN Raise(S, d.exc)
    ELSE AppendSpot(i, mkSpot(S, <<S.data[i].x, S.data[i].y>>, ResolvedSize(S, i),
                              S.opts.pxMode, ResolvedBrush(S, i), ResolvedPen(S, i),
                              d.val, ResolvedSymbol(S, i), Len(S.spots)))

\* the loop of generateSpots from point i on and lines 425-426; an exception ends it
RECURSIVE generateSpotsFrom(_, _)
generateSpotsFrom(S, i) ==
    IF S.exc # "" THEN S
    ELSE IF i > Len(S.data)
    THEN [S EXCEPT !.spotsValid = TRUE, !.emitted = Append(@, PlotChanged)]
    ELSE generateSpotsFrom(generateSpot(S, i, PointDataAt(S, i)), i + 1)

\* ScatterPlotItem.generateSpots
generateSpots(S) ==
    IF S.dataNone
    THEN Raise(S, "TypeError: 'NoneType' object is not subscriptable")
    ELSE generateSpotsFrom(S, 1)

-----------------------------------------------------------------------------
(* ScatterPlotItem: the setters *)

\* rows with column col set from the list vs (one value per row)
RECURSIVE SetColumn(_, _, _, _)
SetColumn(rows, col, vs, i) ==
    IF i > Len(rows) THEN rows
    ELSE SetColumn([rows EXCEPT ![i] = [@ EXCEPT ![col] = vs[i]]], col, vs, i + 1)

\* ScatterPlotItem.setPen with one argument, a pen specification or a list of them
setPen(S, arg) ==
    IF arg.list
    THEN IF S.dataNone
         THEN Raise(S, "Exception: Must set data before setting multiple pens.")
         ELSE IF Len(arg.vs) # Len(S.data)
         THEN Raise(S, "Exception: Number of pens does not match number of points")
         ELSE updateSpots(
                [S EXCEPT !.data = SetColumn(@, "pen",
                                             [i \in 1..Len(arg.vs) |-> mkPen(arg.vs[i])], 1)])
    ELSE updateSpots([S EXCEPT !.opts.pen = mkPen(arg.v)])

\* ScatterPlotItem.setBrush
setBrush(S, arg) ==
    IF arg.list
    THEN IF S.dataNone
         THEN Raise(S, "Exception: Must set data before setting multiple brushes.")
         ELSE IF Len(arg.vs) # Len(S.data)
         THEN Raise(S, "Exception: Number of brushes does not match number of points")
         ELSE updateSpots(
                [S EXCEPT !.data = SetColumn(@, "brush",
                                             [i \in 1..Len(arg.vs) |-> mkBrush(arg.vs[i])], 1)])
    ELSE updateSpots([S EXCEPT !.opts.brush = mkBrush(arg.v)])

\* ScatterPlotItem.setSymbol
setSymbol(S, arg) ==
    IF arg.list
    THEN IF S.dataNone
         THEN Raise(S, "Exception: Must set data before setting multiple symbols.")
         ELSE IF Len(arg.vs) # Len(S.data)
         THEN Raise(S, "Exception: Number of symbols does not match number of points")
         ELSE updateSpots(
                [S EXCEPT !.data = SetColumn(@, "symbol",
                                             [i \in 1..Len(arg.vs) |-> S1(arg.vs[i])], 1)])
    ELSE updateSpots([S EXCEPT !.opts.symbol = arg.v])

\* setSize marking the SpotItems invalid before it looks at its argument
setSize_invalidatingFirst(S, arg) ==
    IF arg.list
    THEN IF S.dataNone
         THEN Raise(updateSpots(S), "Exception: Must set data before setting multiple sizes.")
         ELSE IF Len(arg.vs) # Len(S.data)
         THEN Raise(updateSpots(S),
                    "Exception: Number of sizes does not match number of points")
         ELSE updateSpots([S EXCEPT !.data = SetColumn(@, "size", arg.vs, 1)])
    ELSE updateSpots([S EXCEPT !.opts.size = arg.v])

\* ScatterPlotItem.setSize
setSize(S, arg) ==
    IF arg.list
    THEN IF S.dataNone
         THEN Raise(S, "Exception: Must set data before setting multiple sizes.")
         ELSE IF Len(arg.vs) # Len(S.data)
         THEN Raise(S, "Exception: Number of sizes does not match number of points")
         ELSE updateSpots([S EXCEPT !.data = SetColumn(@, "size", arg.vs, 1)])
    ELSE updateSpots([S EXCEPT !.opts.size = arg.v])

\* setPointData without the test of self.data (lines 288-289)
setPointData_withoutDataTest(S, pd) ==
    IF pd.kind = "list" /\ ~S.dataNone /\ Len(pd.vals) # Len(S.data)
    THEN Raise(S, "Exception: Length of meta data does not match number of points")
    ELSE updateSpots([S EXCEPT !.pointData = pd])

\* ScatterPlotItem.setPointData: pd is PDNone, PDScalar or PDList(..)
setPointData(S, pd) ==
    IF pd.kind = "list" /\ S.dataNone
    THEN Raise(S, "Exception: Must set xy data before setting meta data.")
    ELSE IF pd.kind = "list" /\ Len(pd.vals) # Len(S.data)
    THEN Raise(S, "Exception: Length of meta data does not match number of points")
    ELSE updateSpots([S EXCEPT !.pointData = pd])

\* ScatterPlotItem.setIdentical
setIdentical(S, ident) == updateSpots([S EXCEPT !.opts.identical = ident])

\* ScatterPlotItem.setPxMode
setPxMode(S, mode) == updateSpots([S EXCEPT !.opts.pxMode = mode])

-----------------------------------------------------------------------------
(* ScatterPlotItem.setData, addPoints *)

\* A call of setData/addPoints.  nargs: the number of positional arguments; arg1: the
\* only one (a list of spot dicts); argXY: the two of them, zipped to pairs.  Every
\* keyword is <<>> (not given) or <<value>>.
NoKw ==
    [spots |-> <<>>, xy |-> <<>>, pos |-> <<>>, pxMode |-> <<>>, identical |-> <<>>,
     pen |-> <<>>, brush |-> <<>>, symbol |-> <<>>, size |-> <<>>, data |-> <<>>]

Call(nargs, arg1, argXY, kw) == [nargs |-> nargs, arg1 |-> arg1, argXY |-> argXY, kw |-> kw]

\* setData(x, y)
CallXY(xy) == Call(2, <<>>, xy, NoKw)
\* setData()
CallEmpty == Call(0, <<>>, <<>>, NoKw)

\* a spot dict: keys in the dict's iteration order, and the values of the known keys
SpotDict(keys, pos) ==
    [keys |-> keys, pos |-> pos, x |-> pos[1], y |-> pos[2], size |-> -1, symbol |-> "",
     pen |-> None, brush |-> None, data |-> None]

\* lines 144-161: one key of the dict of spot i
ApplySpotKey(S, i, spot, key) ==
    CASE key = "pen" -> [S EXCEPT !.data[i].pen = mkPen(spot.pen)]
      [] key = "brush" -> [S EXCEPT !.data[i].brush = mkBrush(spot.brush)]
      [] key = "pos" -> [S EXCEPT !.data[i].x = spot.pos[1], !.data[i].y = spot.pos[2]]
      [] key = "x" -> [S EXCEPT !.data[i].x = spot.x]
      [] key = "y" -> [S EXCEPT !.data[i].y = spot.y]
      [] key = "size" -> [S EXCEPT !.data[i].size = spot.size]
      [] key = "symbol" -> [S EXCEPT !.data[i].symbol = S1(spot.symbol)]
      [] key = "data" -> [S EXCEPT !.pointData.vals[i] = spot.data]
      [] OTHER -> Raise(S, "Exception: Unknown spot parameter")

\* lines 143-161 for spot i: the keys of the dict from the k-th on
RECURSIVE ApplySpotKeys(_, _, _, _)
ApplySpotKeys(S, i, spot, k) ==
    IF S.exc # "" \/ k > Len(spot.keys) THEN S
    ELSE ApplySpotKeys(ApplySpotKey(S, i, spot, spot.keys[k]), i, spot, k + 1)

\* lines 139-161: the loop over the spot dicts from the i-th on
RECURSIVE ApplySpots(_, _, _)
ApplySpots(S, spotList, i) ==
    IF S.exc # "" \/ i > Len(spotList) THEN S
    ELSE ApplySpots(ApplySpotKeys(S, i, spotList[i], 1), spotList, i + 1)

\* lines 168-171: the keyword options in the order their setters are called
OptionOrder == <<"pxMode", "identical", "pen", "brush", "symbol", "size">>

\* lines 169-171 for one option
ApplyOption(S, kw, key) ==
    IF kw[key] = <<>> THEN S
    ELSE CASE key = "pxMode" -> setPxMode(S, kw.pxMode[1])
           [] key = "identical" -> setIdentical(S, kw.identical[1])
           [] key = "pen" -> setPen(S, kw.pen[1])
           [] key = "brush" -> setBrush(S, kw.brush[1])
           [] key = "symbol" -> setSymbol(S, kw.symbol[1])
           [] key = "size" -> setSize(S, kw.size[1])

RECURSIVE ApplyOptions(_, _, _)
ApplyOptions(S, kw, k) ==
    IF S.exc # "" \/ k > Len(OptionOrder) THEN S
    ELSE ApplyOptions(ApplyOption(S, kw, OptionOrder[k]), kw, k + 1)

\* lines 93-97: the positional arguments become keywords
KwPositional(call) ==
    IF call.nargs = 1 THEN [call.kw EXCEPT !.spots = <<call.arg1>>]
    ELSE IF call.nargs = 2 THEN [call.kw EXCEPT !.xy = <<call.argXY>>]
    ELSE call.kw

\* lines 102-118: pos becomes x and y
KwPos(kw) == IF kw.pos # <<>> THEN [kw EXCEPT !.xy = kw.pos] ELSE kw

\* lines 125-128: without spots and without y, x and y are empty
KwDefault(kw) == IF kw.spots = <<>> /\ kw.xy = <<>> THEN [kw EXCEPT !.xy = <<<<>>>>] ELSE kw

\* lines 121-128
NumPts(kw) == IF kw.spots # <<>> THEN Len(kw.spots[1]) ELSE Len(kw.xy[1])

\* lines 131-137
AllocData(S, numPts, garbage) ==
    [S EXCEPT !.data = [i \in 1..numPts |-> EmptyRow(garbage)],
              !.dataNone = FALSE,
              !.pointData = PDList([i \in 1..numPts |-> None])]

\* lines 139-164
FillData(S, kw) ==
    IF kw.spots # <<>>
    THEN ApplySpots(S, kw.spots[1], 1)
    ELSE [S EXCEPT !.data = [i \in 1..Len(S.data) |->
                                [S.data[i] EXCEPT !.x = kw.xy[1][i][1],
                                                  !.y = kw.xy[1][i][2]]]]

\* lines 173-174
SetPointDataKw(S, kw) ==
    IF S.exc # "" \/ kw.data = <<>> THEN S ELSE setPointData(S, kw.data[1])

\* line 176
FinishSetData(S) == IF S.exc # "" THEN S ELSE updateSpots(S)

\* lines 121-176, kw being the keywords lines 93-128 leave
setDataKw(S, kw, garbage) ==
    FinishSetData(
        SetPointDataKw(ApplyOptions(FillData(AllocData(S, NumPts(kw), garbage), kw), kw, 1),
                       kw))

\* ScatterPlotItem.setData
setData(S, call, garbage) ==
    IF call.nargs > 2
    THEN Raise(clear(S), "Exception: Only accepts up to two non-keyword arguments.")
    ELSE setDataKw(clear(S), KwDefault(KwPos(KwPositional(call))), garbage)

\* lines 364-372: the rows kept before the new ones
JoinData(data1, T) ==
    IF T.exc # "" THEN T
    ELSE [T EXCEPT !.data = data1 \o T.data, !.emitted = Append(@, PlotChanged)]

\* ScatterPlotItem.addPoints
addPoints(S, call, garbage) ==
    IF S.dataNone
    THEN setData(S, call, garbage)
    ELSE JoinData(S.data, setData(S, call, garbage))

-----------------------------------------------------------------------------
(* ScatterPlotItem: the queries *)

\* the column dataBounds reads: data['x'] for ax = 0, data['y'] for ax = 1
Column(rows, ax) == [i \in 1..Len(rows) |-> IF ax = 0 THEN rows[i].x ELSE rows[i].y]

\* np.argmin, np.argmax: the first index of the least (greatest) element
argmin(d) == CHOOSE i \in 1..Len(d) :
                /\ \A j \in 1..Len(d) : d[i] <= d[j]
                /\ \A j \in 1..(i - 1) : d[j] > d[i]
argmax(d) == CHOOSE i \in 1..Len(d) :
                /\ \A j \in 1..Len(d) : d[i] >= d[j]
                /\ \A j \in 1..(i - 1) : d[j] < d[i]

\* lines 335-339: <<minVal, maxVal>>
Extremes(S, d, minIndex, maxIndex) ==
    IF ~S.opts.pxMode
    THEN <<d[minIndex] - S.data[minIndex].size, d[maxIndex] + S.data[maxIndex].size>>
    ELSE <<d[minIndex], d[maxIndex]>>

\* lines 332-345, d being the column of the axis; frac is in hundredths (100 is 1.0)
BoundsOf(S, ax, frac, d) ==
    IF frac >= 100
    THEN [S EXCEPT !.bounds[ax + 1] = Extremes(S, d, argmin(d), argmax(d)),
                   !.ret = RetPair(Extremes(S, d, argmin(d), argmax(d))[1],
                                   Extremes(S, d, argmin(d), argmax(d))[2])]
    ELSE IF frac <= 0
    THEN Raise(S, "Exception: Value for parameter 'frac' must be > 0.")
    \* scipy.stats.scoreatpercentile(d, 50 -+ frac * 50): the two percentiles asked
    ELSE [S EXCEPT !.ret = RetPercentiles(50 - (frac \div 2), 50 + (frac \div 2))]

\* ScatterPlotItem.dataBounds
dataBounds(S, ax, frac) ==
    IF frac >= 100 /\ S.bounds[ax + 1] # <<>>
    THEN [S EXCEPT !.ret = RetPair(S.bounds[ax + 1][1], S.bounds[ax + 1][2])]
    ELSE IF S.dataNone \/ Len(S.data) = 0
    THEN [S EXCEPT !.ret = RetNonePair]
    ELSE BoundsOf(S, ax, frac, Column(S.data, ax))

\* lines 474-479: a bound that is None counts as 0
Lower(r) == IF r.kind = "pair" THEN r.val[1] ELSE 0
Upper(r) == IF r.kind = "pair" THEN r.val[2] ELSE 0

\* line 480
RectOf(rx, SY) ==
    [SY EXCEPT !.ret = RetRect(Lower(rx), Lower(SY.ret), Upper(rx) - Lower(rx),
                               Upper(SY.ret) - Lower(SY.ret))]

\* lines 473-480, SX being what line 472 left
boundingRectY(SX) == RectOf(SX.ret, dataBounds(SX, 1, 100))

\* ScatterPlotItem.boundingRect
boundingRect(S) == boundingRectY(dataBounds(S, 0, 100))

\* lines 442-443, 491-492, 496-497: the SpotItems are made if they are not valid
Materialized(S) == IF ~S.spotsValid THEN generateSpots(S) ELSE S

\* ScatterPlotItem.paint
paint(S) == Materialized(S)

\* line 493
ReturnSpots(T) == IF T.exc # "" THEN T ELSE [T EXCEPT !.ret = RetSpots(T.spots)]

\* ScatterPlotItem.points
points(S) == ReturnSpots(Materialized(S))

\* line 512: the hit test of one SpotItem, both sides doubled (s2x = ss * 0.5)
Hit(S, s, pos, pw, ph) ==
    /\ 2 * pos[1] > 2 * s.x - (IF S.opts.pxMode THEN SpotItem_size(s) * pw ELSE SpotItem_size(s))
    /\ 2 * pos[1] < 2 * s.x + (IF S.opts.pxMode THEN SpotItem_size(s) * pw ELSE SpotItem_size(s))
    /\ 2 * pos[2] > 2 * s.y - (IF S.opts.pxMode THEN SpotItem_size(s) * ph ELSE SpotItem_size(s))
    /\ 2 * pos[2] < 2 * s.y + (IF S.opts.pxMode THEN SpotItem_size(s) * ph ELSE SpotItem_size(s))

\* line 518 without the sort: the hits in the order of self.spots
SortByZ_unsorted(pts) == pts

\* SpotItem.setZValue (inherited from QGraphicsItem) on self.spots[k]: zValue() returns
\* z from then on
SpotItem_setZValue(S, k, z) == [S EXCEPT !.spots[k].z = z]

\* list.sort with cmp(b.zValue(), a.zValue()): stable, greatest z first
RECURSIVE InsertByZ(_, _)
InsertByZ(sorted, s) ==
    IF sorted = <<>> THEN <<s>>
    ELSE IF sorted[Len(sorted)].z >= s.z THEN Append(sorted, s)
    ELSE Append(InsertByZ(SubSeq(sorted, 1, Len(sorted) - 1), s), sorted[Len(sorted)])

RECURSIVE SortByZ(_)
SortByZ(pts) ==
    IF pts = <<>> THEN <<>>
    ELSE InsertByZ(SortByZ(SubSeq(pts, 1, Len(pts) - 1)), pts[Len(pts)])

\* lines 498-519
HitsOf(T, pos, pw, ph) ==
    IF T.exc # "" THEN T
    ELSE [T EXCEPT !.ret = RetSpots(SortByZ(SelectSeq(T.spots,
                                                      LAMBDA s : Hit(T, s, pos, pw, ph))))]

\* ScatterPlotItem.pointsAt; pw, ph: what pixelWidth() and pixelHeight() return
pointsAt(S, pos, pw, ph) == HitsOf(Materialized(S), pos, pw, ph)

\* the event the handler is given: not accepted yet
Arrive(S, button) ==
    [S EXCEPT !.ev = [button |-> button, accepted |-> FALSE, called |-> "none"]]

\* lines 555, 557: ev.ignore()
Ignored(S) == [S EXCEPT !.ev.accepted = FALSE, !.ev.called = "ignore"]

\* lines 549-555, T being what pointsAt left
ClickOn(T) ==
    IF T.exc # "" THEN T
    ELSE IF Len(T.ret.spots) > 0
    THEN [T EXCEPT !.ptsClicked = T.ret.spots, !.emitted = Append(@, Clicked(T.ret.spots)),
                   !.ev.accepted = TRUE, !.ev.called = "accept", !.ret = RetNone]
    ELSE [Ignored(T) EXCEPT !.ret = RetNone]

\* mouseClickEvent without the test of the button (line 547)
mouseClickEvent_anyButton(S, button, pos, pw, ph) ==
    ClickOn(pointsAt(Arrive(S, button), pos, pw, ph))

\* ScatterPlotItem.mouseClickEvent
mouseClickEvent(S, button, pos, pw, ph) ==
    IF button = "LeftButton"
    THEN ClickOn(pointsAt(Arrive(S, button), pos, pw, ph))
    ELSE Ignored(Arrive(S, button))

-----------------------------------------------------------------------------
(* The state after construction *)

\* the size __init__ sets
DefaultSize == 7

\* lines 37-42: the attributes before the setters of __init__
Blank ==
    [data |-> <<>>, dataNone |-> TRUE, pointData |-> PDNone,
     opts |-> [pen |-> None, brush |-> None, symbol |-> None, size |-> 0,
               pxMode |-> FALSE, identical |-> FALSE],
     spots |-> <<>>, spotsValid |-> FALSE, bounds |-> <<<<>>, <<>>>>,
     _spotPixmap |-> <<>>, ptsClicked |-> <<>>,
     exc |-> "", ret |-> RetNone, emitted |-> <<>>, ev |-> NoEvent]

\* ScatterPlotItem.__init__ with no arguments
Constructed ==
    setData(
        setIdentical(
            setPxMode(
                setSize(setSymbol(setBrush(setPen(Blank, One("grey")), One("blue")),
                                  One("o")),
                        OneNum(DefaultSize)),
                TRUE),
            FALSE),
        CallEmpty, 0)

\* the call an action made: its name and the arguments the properties read
Op(name) ==
    [name |-> name, list |-> FALSE, n |-> 0, ax |-> 0, frac |-> 0, pos |-> <<0, 0>>,
     pw |-> 1, ph |-> 1, button |-> "none", symbol |-> None, call |-> CallEmpty]

InitFrom(S) ==
    /\ data = S.data
    /\ dataNone = S.dataNone
    /\ pointData = S.pointData
    /\ opts = S.opts
    /\ spots = S.spots
    /\ spotsValid = S.spotsValid
    /\ bounds = S.bounds
    /\ _spotPixmap = S._spotPixmap
    /\ ptsClicked = S.ptsClicked
    /\ op = Op("__init__")
    /\ exc = S.exc
    /\ ret = RetNone
    /\ emitted = S.emitted
    /\ ev = NoEvent

Init == InitFrom(Constructed)

-----------------------------------------------------------------------------
(* The public calls *)

\* a materializing call is made only while its SpotItems fit the model
Fits == spotsValid \/ dataNone \/ Len(spots) + Len(data) <= MaxSpots

SetData(call) ==
    /\ op' = [Op("setData") EXCEPT !.call = call]
    /\ Commit(setData(Self, call, 0))

AddPoints(call) ==
    /\ Len(data) + Len(call.argXY) <= MaxRows
    /\ op' = [Op("addPoints") EXCEPT !.n = Len(call.argXY), !.call = call]
    /\ Commit(addPoints(Self, call, 0))

Clear ==
    /\ op' = Op("clear")
    /\ Commit(clear(Self))

SetPen(arg) ==
    /\ op' = [Op("setPen") EXCEPT !.list = arg.list, !.n = Len(arg.vs)]
    /\ Commit(setPen(Self, arg))

SetBrush(arg) ==
    /\ op' = [Op("setBrush") EXCEPT !.list = arg.list, !.n = Len(arg.vs)]
    /\ Commit(setBrush(Self, arg))

SetSymbol(arg) ==
    /\ op' = [Op("setSymbol") EXCEPT !.list = arg.list, !.n = Len(arg.vs),
                                     !.symbol = arg.v]
    /\ Commit(setSymbol(Self, arg))

SetSize(arg) ==
    /\ op' = [Op("setSize") EXCEPT !.list = arg.list, !.n = Len(arg.vs)]
    /\ Commit(setSize(Self, arg))

SetPointData(pd) ==
    /\ op' = [Op("setPointData") EXCEPT !.list = (pd.kind = "list"), !.n = Len(pd.vals)]
    /\ Commit(setPointData(Self, pd))

SetIdentical(ident) ==
    /\ op' = Op("setIdentical")
    /\ Commit(setIdentical(Self, ident))

SetPxMode(mode) ==
    /\ op' = Op("setPxMode")
    /\ Commit(setPxMode(Self, mode))

Paint ==
    /\ Fits
    /\ op' = Op("paint")
    /\ Commit(paint(Self))

Points ==
    /\ Fits
    /\ op' = Op("points")
    /\ Commit(points(Self))

PointsAt(pos, pw, ph) ==
    /\ Fits
    /\ op' = [Op("pointsAt") EXCEPT !.pos = pos, !.pw = pw, !.ph = ph]
    /\ Commit(pointsAt(Self, pos, pw, ph))

MouseClickEvent(button, pos, pw, ph) ==
    /\ Fits
    /\ op' = [Op("mouseClickEvent") EXCEPT !.pos = pos, !.pw = pw, !.ph = ph,
                                           !.button = button]
    /\ Commit(mouseClickEvent(Self, button, pos, pw, ph))

SetZValue(k, z) ==
    /\ k \in 1..Len(spots)
    /\ op' = [Op("setZValue") EXCEPT !.n = k]
    /\ Commit(SpotItem_setZValue(Self, k, z))

SpotSetPen(k, form, pen) ==
    /\ k \in 1..Len(spots)
    /\ op' = [Op("SpotItem.setPen") EXCEPT !.n = k,
                                            !.call = [CallEmpty EXCEPT !.kw.pen = <<One(pen)>>]]
    /\ Commit(SpotItem_setPen(Self, k, form, pen))

SpotSetBrush(k, form, brush) ==
    /\ k \in 1..Len(spots)
    /\ op' = [Op("SpotItem.setBrush") EXCEPT !.n = k,
                                              !.call = [CallEmpty EXCEPT !.kw.brush = <<One(brush)>>]]
    /\ Commit(SpotItem_setBrush(Self, k, form, brush))

DataBounds(ax, frac) ==
    /\ op' = [Op("dataBounds") EXCEPT !.ax = ax, !.frac = frac]
    /\ Commit(dataBounds(Self, ax, frac))

BoundingRect ==
    /\ op' = Op("boundingRect")
    /\ Commit(boundingRect(Self))

\* a SpotPixmap returned by its constructor
RetPixmap(pm) == [kind |-> "SpotPixmap", spots |-> <<>>, val |-> <<pm>>]

\* what SpotPixmap(...) leaves: the new object, or the exception of __init__
Constructing(S, new) ==
    IF new.exc # "" THEN Raise(S, new.exc) ELSE [S EXCEPT !.ret = RetPixmap(new.pm)]

\* SpotPixmap(pxMode, size, pen, brush, symbol), called beside the collection
NewSpotPixmap(pxMode, size, pen, brush, symbol) ==
    /\ op' = [Op("SpotPixmap") EXCEPT !.symbol = symbol]
    /\ Commit(Constructing(Self, SpotPixmap(NewId(Self, {}), pxMode, size, pen, brush,
                                            symbol)))

-----------------------------------------------------------------------------
(* Spec: setData, the collection-wide options and the materializing queries *)

\* the positions the calls of Spec pass
Positions == {<<0, 0>>}

Next ==
    \/ \E xy \in SeqsOf(Positions, 0, MaxPts) : SetData(CallXY(xy))
    \/ \E c \in {"grey", "r"} : SetPen(One(c))
    \/ SetBrush(One("blue"))
    \/ SetSymbol(One("o"))
    \/ SetSize(OneNum(DefaultSize))
    \/ \E pd \in {PDNone, PDScalar} : SetPointData(pd)
    \/ \E b \in BOOLEAN : SetIdentical(b)
    \/ \E b \in BOOLEAN : SetPxMode(b)
    \/ Paint
    \/ Points
    \/ PointsAt(<<0, 0>>, 1, 1)

Spec == Init /\ [][Next]_vars

-----------------------------------------------------------------------------
(* SpecLife: replacing, extending and clearing the dataset *)

\* the positions the calls of SpecLife pass
LifePositions == {<<0, 0>>, <<4, 2>>}

NextLife ==
    \/ \E xy \in SeqsOf(LifePositions, 0, MaxPts) : SetData(CallXY(xy))
    \/ \E xy \in SeqsOf(LifePositions, 0, MaxPts) : AddPoints(CallXY(xy))
    \/ Clear
    \/ SetPen(One("r"))
    \/ Paint
    \/ Points
    \/ \E pos \in LifePositions : PointsAt(pos, 1, 1)
    \/ BoundingRect

SpecLife == Init /\ [][NextLife]_vars

-----------------------------------------------------------------------------
(* SpecBounds: the data bounds and their cache *)

\* the positions the calls of SpecBounds pass
GeomPositions == {<<0, 0>>, <<4, 2>>}

\* the fractions dataBounds is asked for, in hundredths
Fractions == {-50, 0, 50, 100}

\* the positions of the documented example of dataBounds
ExamplePositions == <<<<0, 0>>, <<5, 3>>, <<-2, 8>>>>

NextBounds ==
    \/ \E xy \in SeqsOf(GeomPositions, 0, MaxPts) \cup {ExamplePositions} :
            SetData(CallXY(xy))
    \/ \E xy \in SeqsOf(GeomPositions, 0, MaxPts) : AddPoints(CallXY(xy))
    \/ Clear
    \/ \E n \in {0, 2} : SetSize(OneNum(n))
    \/ \E vs \in SeqsOf({4}, 0, MaxPts) : SetSize(ManyNum(vs))
    \/ \E b \in BOOLEAN : SetPxMode(b)
    \/ \E ax \in {0, 1}, frac \in Fractions : DataBounds(ax, frac)
    \/ BoundingRect

SpecBounds == Init /\ [][NextBounds]_vars

-----------------------------------------------------------------------------
(* SpecClick: the click handler; SpecHit: hit testing *)

\* the positions the calls of SpecClick and SpecHit pass
HitPositions == {<<0, 0>>, <<2, 0>>}

\* where the mouse is: on a centre, between the two centres, far away
ClickPositions == {<<0, 0>>, <<1, 0>>, <<9, 9>>}

\* what pixelWidth() and pixelHeight() return
PixelScales == {<<1, 1>>, <<2, 1>>}

Buttons == {"LeftButton", "RightButton"}

\* two points of which a click on <<0, 0>> hits one when the size is 2
ClickPair == <<<<0, 0>>, <<2, 0>>>>

NextClick ==
    \/ \E xy \in SeqsOf(Positions, 0, MaxPts) \cup {ClickPair} : SetData(CallXY(xy))
    \/ Clear
    \/ SetSize(OneNum(2))
    \/ \E button \in Buttons, pos \in {<<0, 0>>, <<9, 9>>} :
            MouseClickEvent(button, pos, 1, 1)

SpecClick == Init /\ [][NextClick]_vars

NextHit ==
    \/ \E xy \in SeqsOf(HitPositions, 0, MaxPts) : SetData(CallXY(xy))
    \/ \E xy \in SeqsOf(HitPositions, 0, MaxPts) : AddPoints(CallXY(xy))
    \/ Clear
    \/ \E n \in {0, 2} : SetSize(OneNum(n))
    \/ \E b \in BOOLEAN : SetPxMode(b)
    \/ \E b \in BOOLEAN : SetIdentical(b)
    \/ \E pos \in ClickPositions, px \in PixelScales : PointsAt(pos, px[1], px[2])

SpecHit == Init /\ [][NextHit]_vars

-----------------------------------------------------------------------------
(* SpecSetters: the per-point setters *)

NextSetters ==
    \/ \E xy \in SeqsOf(Positions, 0, MaxPts) : SetData(CallXY(xy))
    \/ AddPoints(CallEmpty)
    \/ Clear
    \/ SetPen(One("r"))
    \/ SetPointData(PDNone)
    \/ \E vs \in SeqsOf({"grey"}, 0, MaxPts + 1) : SetPen(Many(vs))
    \/ \E vs \in SeqsOf({"blue"}, 0, MaxPts + 1) : SetBrush(Many(vs))
    \/ \E vs \in SeqsOf({"o"}, 0, MaxPts + 1) : SetSymbol(Many(vs))
    \/ \E vs \in SeqsOf({DefaultSize}, 0, MaxPts + 1) : SetSize(ManyNum(vs))
    \/ \E vs \in SeqsOf({None}, 0, MaxPts + 1) : SetPointData(PDList(vs))
    \/ Points

SpecSetters == Init /\ [][NextSetters]_vars

-----------------------------------------------------------------------------
(* SpecSymbol: the symbol codes, given to SpotPixmap and to the collection *)

\* the symbol codes the calls pass: the five symbols, '^', an unknown one, None and
\* the integers of IntCodes
SymbolCodes == {"o", "s", "t", "d", "+", "^", "x", None} \cup IntCodes

\* the symbol codes given to the collection
CollectionSymbols == {"o", "x", "2", "-1"}

NextSymbol ==
    \/ \E px \in BOOLEAN, symbol \in SymbolCodes :
            NewSpotPixmap(px, DefaultSize, "grey", "blue", symbol)
    \/ \E xy \in SeqsOf(Positions, 0, MaxPts) : SetData(CallXY(xy))
    \/ \E c \in CollectionSymbols : SetSymbol(One(c))
    \/ \E b \in BOOLEAN : SetIdentical(b)
    \/ Paint
    \/ Points

SpecSymbol == Init /\ [][NextSymbol]_vars

-----------------------------------------------------------------------------
(* SpecShapes: the shapes of the arguments of setData and addPoints *)

\* spot dicts: a position, a position and a size, a position and an unknown key
SpotDicts ==
    {SpotDict(<<"pos">>, <<0, 0>>),
     [SpotDict(<<"pos", "size">>, <<4, 2>>) EXCEPT !.size = 2],
     SpotDict(<<"pos", "colour">>, <<0, 0>>)}

\* three positional arguments
CallThree == Call(3, <<>>, <<>>, NoKw)

\* a list of spot dicts together with x and y, or with pos
MixedCalls ==
    {Call(1, <<SpotDict(<<"pos">>, <<0, 0>>)>>, <<>>,
          [NoKw EXCEPT !.xy = <<<<<<4, 2>>, <<4, 2>>>>>>]),
     Call(0, <<>>, <<>>,
          [NoKw EXCEPT !.spots = <<<<SpotDict(<<"pos">>, <<0, 0>>)>>>>,
                       !.pos = <<<<<<4, 2>>>>>>])}

\* x and y with a list of pens of another length
CallWrongLength == Call(2, <<>>, <<<<0, 0>>>>, [NoKw EXCEPT !.pen = <<Many(<<"r", "r">>)>>])

ShapeCalls ==
    {CallXY(xy) : xy \in SeqsOf(Positions, 0, MaxPts)}
        \cup {Call(1, sp, <<>>, NoKw) : sp \in SeqsOf(SpotDicts, 0, MaxPts)}
        \cup MixedCalls
        \cup {CallThree, CallWrongLength}

NextShapes ==
    \/ \E call \in ShapeCalls : SetData(call)
    \/ \E call \in {CallEmpty, CallThree, CallWrongLength} \cup MixedCalls : AddPoints(call)
    \/ Clear
    \/ Points
    \/ DataBounds(0, 100)

SpecShapes == Init /\ [][NextShapes]_vars

-----------------------------------------------------------------------------
(* SpecResolve: per-point values and collection defaults, materialized *)

\* MaxPts rows at pairwise different positions
RowPositions == [i \in 1..MaxPts |-> <<i, 2 * i>>]

NextResolve ==
    \/ \E n \in 0..MaxPts : SetData(CallXY(SubSeq(RowPositions, 1, n)))
    \/ SetPen(One("r"))
    \/ \E vs \in SeqsOf({4, -1}, 1, MaxPts) : SetSize(ManyNum(vs))
    \/ SetSymbol(One("2"))
    \/ \E vs \in SeqsOf({"s"}, 1, MaxPts) : SetSymbol(Many(vs))
    \/ \E vs \in SeqsOf({"a"}, 1, MaxPts) : SetPointData(PDList(vs))
    \/ Points

SpecResolve == Init /\ [][NextResolve]_vars

-----------------------------------------------------------------------------
(* SpecStack: SpotItems stacked on one position, with z values *)

ZValues == {0, 1, 2}

NextStack ==
    \/ \E xy \in SeqsOf(Positions, 0, MaxPts) : SetData(CallXY(xy))
    \/ SetSize(OneNum(2))
    \/ \E k \in 1..MaxSpots, z \in ZValues : SetZValue(k, z)
    \/ Points
    \/ \E pos \in {<<0, 0>>, <<9, 9>>} : PointsAt(pos, 1, 1)

SpecStack == Init /\ [][NextStack]_vars

-----------------------------------------------------------------------------
(* SpecSpot: the pen and brush of single SpotItems *)

NextSpot ==
    \/ \E xy \in SeqsOf(Positions, 0, MaxPts) : SetData(CallXY(xy))
    \/ \E b \in BOOLEAN : SetIdentical(b)
    \/ Points
    \/ \E k \in 1..MaxSpots, form \in SetterForms : SpotSetPen(k, form, "r")
    \/ \E k \in 1..MaxSpots, form \in SetterForms : SpotSetBrush(k, form, "r")

SpecSpot == Init /\ [][NextSpot]_vars

-----------------------------------------------------------------------------
(* The claims *)

\* the positions of rows
XYOf(rows) == [i \in 1..Len(rows) |-> <<rows[i].x, rows[i].y>>]

\* C1 (as claimed): points() called right after setData(N positions) returns N
\* SpotItems, each with the pen, brush, size and symbol the collection has as
\* defaults at that moment (the symbol read from the SpotPixmap the item uses).
C1_PointsAfterSetDataReportDefaults ==
    [][(op.name = "setData" /\ exc = "" /\ op'.name = "points") =>
          /\ exc' = ""
          /\ Len(ret'.spots) = Len(data)
          /\ \A i \in 1..Len(ret'.spots) :
                /\ SpotItem_pen(ret'.spots[i]) = opts.pen
                /\ SpotItem_brush(ret'.spots[i]) = opts.brush
                /\ SpotItem_size(ret'.spots[i]) = opts.size
                /\ ret'.spots[i].spotPixmap.symbol = opts.symbol]_vars

\* C2 (as claimed): whatever visual mutators and queries followed setData, points()
\* returns one SpotItem per row of the dataset, the one the row refers to.
C2_PointsOnePerRecord ==
    (op.name = "points" /\ exc = "") =>
        /\ Len(ret.spots) = Len(data)
        /\ \A i \in 1..Len(data) : ret.spots[i].id = data[i].spot

\* C3 (as claimed): after addPoints the collection behaves like one built by
\* setData on the concatenated positions: points() succeeds and returns one
\* SpotItem per row, at the rows' positions and with the reference's metadata, and
\* boundingRect and pointsAt agree with the reference.
C3_AddPointsLikeSetData ==
    [][(op.name = "addPoints" /\ exc = "" /\ op'.name = "points") =>
          LET ref == setData(Self, CallXY(XYOf(data)), 0)
              refPoints == points(ref).ret.spots
          IN /\ exc' = ""
             /\ Len(ret'.spots) = Len(data)
             /\ Len(ret'.spots) = Len(refPoints)
             /\ \A i \in 1..Len(ret'.spots) :
                   /\ <<ret'.spots[i].x, ret'.spots[i].y>> = <<data[i].x, data[i].y>>
                   /\ ret'.spots[i].data = refPoints[i].data
             /\ boundingRect(Self).ret = boundingRect(ref).ret
             /\ \A pos \in LifePositions :
                   /\ pointsAt(Self, pos, 1, 1).exc = ""
                   /\ XYOf(pointsAt(Self, pos, 1, 1).ret.spots)
                        = XYOf(pointsAt(ref, pos, 1, 1).ret.spots)]_vars

\* C4 (as claimed): a points(), paint or pointsAt that follows clear() returns
\* normally, and points() and pointsAt return the empty sequence.
C4_QueriesAfterClear ==
    [][(op.name = "clear" /\ op'.name \in {"points", "paint", "pointsAt"}) =>
          /\ exc' = ""
          /\ ret'.spots = <<>>]_vars

\* what the claims say of a row: its coordinate on an axis, its effective size
\* (its own size, or the default of the collection when it holds the sentinel)
CoordOf(row, ax) == IF ax = 0 THEN row.x ELSE row.y
EffectiveSize(row) == IF row.size < 0 THEN opts.size ELSE row.size

SetMin(T) == CHOOSE m \in T : \A n \in T : m <= n
SetMax(T) == CHOOSE m \in T : \A n \in T : m >= n

\* Twice the lower and upper bound the claim gives for an axis.  Not in pixel mode the
\* least coordinate is widened by half the effective size of a row that holds it, or
\* the bound is the least edge of the rows' boxes: either reading is accepted.
ClaimedLower2(ax) ==
    LET lo == SetMin({CoordOf(data[i], ax) : i \in 1..Len(data)})
    IN IF opts.pxMode THEN {2 * lo}
       ELSE {2 * lo - EffectiveSize(data[i]) :
                i \in {j \in 1..Len(data) : CoordOf(data[j], ax) = lo}}
            \cup {SetMin({2 * CoordOf(data[i], ax) - EffectiveSize(data[i]) :
                            i \in 1..Len(data)})}

ClaimedUpper2(ax) ==
    LET hi == SetMax({CoordOf(data[i], ax) : i \in 1..Len(data)})
    IN IF opts.pxMode THEN {2 * hi}
       ELSE {2 * hi + EffectiveSize(data[i]) :
                i \in {j \in 1..Len(data) : CoordOf(data[j], ax) = hi}}
            \cup {SetMax({2 * CoordOf(data[i], ax) + EffectiveSize(data[i]) :
                            i \in 1..Len(data)})}

\* C5 (as claimed): on a dataset that is not empty dataBounds(ax, 1.0) returns the
\* least and the greatest coordinate of the axis in pixel mode, and otherwise these
\* two widened by half the effective size of the marker on each side.
C5_DataBoundsFullExtent ==
    [][(op'.name = "dataBounds" /\ op'.frac = 100 /\ ~dataNone /\ Len(data) > 0) =>
          /\ exc' = ""
          /\ ret'.kind = "pair"
          /\ 2 * ret'.val[1] \in ClaimedLower2(op'.ax)
          /\ 2 * ret'.val[2] \in ClaimedUpper2(op'.ax)]_vars

\* C6 (as claimed): dataBounds with a fraction that is not positive fails with the
\* invalid-parameter exception in every state and returns nothing.
C6_NonPositiveFractionFails ==
    [][(op'.name = "dataBounds" /\ op'.frac <= 0) =>
          exc' = "Exception: Value for parameter 'frac' must be > 0."]_vars

\* the length-mismatch exception of each setter
LengthMismatch(name) ==
    CASE name = "setPen" -> "Exception: Number of pens does not match number of points"
      [] name = "setBrush" -> "Exception: Number of brushes does not match number of points"
      [] name = "setSymbol" -> "Exception: Number of symbols does not match number of points"
      [] name = "setSize" -> "Exception: Number of sizes does not match number of points"
      [] name = "setPointData" ->
            "Exception: Length of meta data does not match number of points"

SequenceSetters == {"setPen", "setBrush", "setSymbol", "setSize", "setPointData"}

\* C7: setPen, setBrush, setSize, setSymbol or setPointData called with a list whose
\* length is not the number of points of the dataset raises its length-mismatch
\* exception and changes no row, no default, not the metadata and not the validity
\* flag (nor any other attribute).
C7_WrongLengthLeavesStateUnchanged ==
    [][(/\ op'.name \in SequenceSetters
        /\ op'.list
        /\ ~dataNone
        /\ op'.n # Len(data)) =>
          /\ exc' = LengthMismatch(op'.name)
          /\ UNCHANGED <<data, dataNone, pointData, opts, spots, spotsValid, bounds,
                         _spotPixmap, ptsClicked>>]_vars

\* C7's case: a list of the wrong length was refused while the SpotItems were valid
\* and a row held a pen of its own
C7_Witness ==
    /\ op.name = "setSize"
    /\ op.list
    /\ op.n # Len(data)
    /\ exc = LengthMismatch("setSize")
    /\ spotsValid
    /\ Len(data) > 0
    /\ data[1].pen # None

\* the sigClicked notifications among the signals a call emitted
ClickedSignals == SelectSeq(emitted, LAMBDA e : e.sig = "sigClicked")

\* C8: a click with the left button where pointsAt finds SpotItems emits sigClicked
\* once, with just these SpotItems, and accepts the event; a click with another
\* button, or where pointsAt finds nothing, emits no sigClicked and ignores the event.
\* (Where pointsAt raises, the handler raises: no sigClicked, the event not accepted.)
C8_ClickHandling ==
    [][(op'.name = "mouseClickEvent") =>
          LET hit == pointsAt(Self, op'.pos, op'.pw, op'.ph)
          IN /\ (op'.button = "LeftButton" /\ hit.exc = "" /\ Len(hit.ret.spots) > 0) =>
                    /\ exc' = ""
                    /\ ClickedSignals' = <<Clicked(hit.ret.spots)>>
                    /\ ev'.accepted
                    /\ ev'.called = "accept"
             /\ (op'.button # "LeftButton" \/ (hit.exc = "" /\ hit.ret.spots = <<>>)) =>
                    /\ exc' = ""
                    /\ ClickedSignals' = <<>>
                    /\ ~ev'.accepted
                    /\ ev'.called = "ignore"
             /\ hit.exc # "" => (ClickedSignals' = <<>> /\ ~ev'.accepted)]_vars

\* C8's case: a left click on a SpotItem was accepted and sigClicked emitted
C8_Witness ==
    /\ op.name = "mouseClickEvent"
    /\ op.button = "LeftButton"
    /\ exc = ""
    /\ ev.accepted
    /\ Len(ptsClicked) > 0
    /\ ClickedSignals = <<Clicked(ptsClicked)>>

\* the box of a row around its centre, both sides doubled: closed, open
InClosedBox(row, pos, pw, ph) ==
    LET w == IF opts.pxMode THEN EffectiveSize(row) * pw ELSE EffectiveSize(row)
        h == IF opts.pxMode THEN EffectiveSize(row) * ph ELSE EffectiveSize(row)
    IN /\ 2 * pos[1] >= 2 * row.x - w
       /\ 2 * pos[1] <= 2 * row.x + w
       /\ 2 * pos[2] >= 2 * row.y - h
       /\ 2 * pos[2] <= 2 * row.y + h

InOpenBox(row, pos, pw, ph) ==
    LET w == IF opts.pxMode THEN EffectiveSize(row) * pw ELSE EffectiveSize(row)
        h == IF opts.pxMode THEN EffectiveSize(row) * ph ELSE EffectiveSize(row)
    IN /\ 2 * pos[1] > 2 * row.x - w
       /\ 2 * pos[1] < 2 * row.x + w
       /\ 2 * pos[2] > 2 * row.y - h
       /\ 2 * pos[2] < 2 * row.y + h

\* C9 (as claimed): a pointsAt that returns, returns the SpotItems of the rows whose
\* box contains the position, each once: the SpotItem of every row the position is
\* the centre of or is strictly inside the box of, and of no row whose closed box it
\* is outside of (a position on the edge of a box may go either way).
C9_PointsAtBoxMembership ==
    [][(op'.name = "pointsAt" /\ exc' = "") =>
          /\ \A i \in 1..Len(data') :
                (\/ InOpenBox(data'[i], op'.pos, op'.pw, op'.ph)
                 \/ op'.pos = <<data'[i].x, data'[i].y>>) =>
                    \E k \in 1..Len(ret'.spots) : ret'.spots[k].id = data'[i].spot
          /\ \A k \in 1..Len(ret'.spots) :
                \E i \in 1..Len(data') :
                    /\ ret'.spots[k].id = data'[i].spot
                    /\ InClosedBox(data'[i], op'.pos, op'.pw, op'.ph)
          /\ \A k, l \in 1..Len(ret'.spots) :
                ret'.spots[k].id = ret'.spots[l].id => k = l]_vars

\* C10 (as claimed): the SpotItems points() returns all use one SpotPixmap while
\* identical and pxMode are both on, and no two of them use the same SpotPixmap
\* while identical is off.
C10_GlyphCacheSharing ==
    (op.name = "points" /\ exc = "") =>
        /\ (opts.identical /\ opts.pxMode) =>
              \A i, j \in 1..Len(ret.spots) :
                  ret.spots[i].spotPixmap.id = ret.spots[j].spotPixmap.id
        /\ ~opts.identical =>
              \A i, j \in 1..Len(ret.spots) :
                  ret.spots[i].spotPixmap.id = ret.spots[j].spotPixmap.id => i = j

\* the SpotItem of self.spots a row refers to
SpotOfRow(row) == spots[CHOOSE k \in 1..Len(spots) : spots[k].id = row.spot]

\* C11 (as claimed): while identical and pxMode are on and the SpotItems are valid,
\* the SpotItem of every row uses a SpotPixmap whose size, pen, brush and symbol are
\* the current defaults of the collection.
C11_SharedCacheFollowsDefaults ==
    (spotsValid /\ ~dataNone /\ opts.identical /\ opts.pxMode) =>
        \A i \in 1..Len(data) :
            /\ SpotOfRow(data[i]).spotPixmap.size = opts.size
            /\ SpotOfRow(data[i]).spotPixmap.pen = opts.pen
            /\ SpotOfRow(data[i]).spotPixmap.brush = opts.brush
            /\ SpotOfRow(data[i]).spotPixmap.symbol = opts.symbol

\* the integer codes of the five symbols
SymbolIndexCodes == {"0", "1", "2", "3", "4"}

\* C12 (as claimed): SpotPixmap given the integer code k of 0..4 stores the k-th of
\* 'o', 's', 't', 'd', '+' with the path that symbol's own code gives, and given any
\* other integer raises the unknown-symbol exception an unknown string raises.
C12_IntegerSymbolCodes ==
    (op.name = "SpotPixmap") =>
        /\ op.symbol \in SymbolIndexCodes =>
              /\ exc = ""
              /\ ret.val[1].symbol = SymbolList[IntValue(op.symbol) + 1]
              /\ ret.val[1].path = SpotPixmap_setPath(SymbolList[IntValue(op.symbol) + 1]).path
        /\ op.symbol \in IntCodes \ SymbolIndexCodes =>
              exc = SpotPixmap_setPath("x").exc

\* the keys of a spot dict setData knows (lines 144-158)
KnownSpotKeys == {"pen", "brush", "pos", "x", "y", "size", "symbol", "data"}

\* the spot dicts a call passes, positionally or by keyword
SpotsOfCall(call) ==
    IF KwPositional(call).spots = <<>> THEN <<>> ELSE KwPositional(call).spots[1]

\* a call the claim has refused: more than two positional arguments, a spot dict
\* with an unknown key, a list of spot dicts together with x and y or with pos
MalformedCall(call) ==
    \/ call.nargs > 2
    \/ \E i \in 1..Len(SpotsOfCall(call)) :
            \E k \in 1..Len(SpotsOfCall(call)[i].keys) :
                SpotsOfCall(call)[i].keys[k] \notin KnownSpotKeys
    \/ /\ KwPositional(call).spots # <<>>
       /\ (KwPositional(call).xy # <<>> \/ KwPositional(call).pos # <<>>)

\* the exceptions setData raises for its arguments
InvalidArguments ==
    {"Exception: Only accepts up to two non-keyword arguments.",
     "Exception: Unknown spot parameter"}

\* C13 (as claimed): setData and addPoints raise an invalid-arguments exception when
\* given more than two positional arguments, a spot dict with an unknown key, or a
\* list of spot dicts together with x/y or pos.
C13_MalformedCallsFail ==
    (op.name \in {"setData", "addPoints"} /\ MalformedCall(op.call)) =>
        exc \in InvalidArguments

\* the exceptions of the failures C14 names
CallFailures ==
    InvalidArguments \cup {"Exception: Number of pens does not match number of points"}

\* C14 (as claimed): a setData or addPoints that fails for its arguments leaves the
\* rows, the metadata, the cached bounds and the SpotItems as they were.
C14_FailedCallLeavesState ==
    [][(op'.name \in {"setData", "addPoints"} /\ exc' \in CallFailures) =>
          UNCHANGED <<data, dataNone, pointData, bounds, spots>>]_vars

\* the exception of each setter for a list given while there is no dataset
MustSetDataFirst(name) ==
    CASE name = "setPen" -> "Exception: Must set data before setting multiple pens."
      [] name = "setBrush" -> "Exception: Must set data before setting multiple brushes."
      [] name = "setSymbol" -> "Exception: Must set data before setting multiple symbols."
      [] name = "setSize" -> "Exception: Must set data before setting multiple sizes."
      [] name = "setPointData" -> "Exception: Must set xy data before setting meta data."

\* C15: setPen, setBrush, setSize, setSymbol or setPointData called with a list
\* while there is no dataset (self.data is None) raises its must-set-data-first
\* exception and changes no default, not the metadata, not the validity flag, not
\* the cached bounds (nor any other attribute).
C15_ListBeforeDataRefused ==
    [][(op'.name \in SequenceSetters /\ op'.list /\ dataNone) =>
          /\ exc' = MustSetDataFirst(op'.name)
          /\ UNCHANGED <<data, dataNone, pointData, opts, spots, spotsValid, bounds,
                         _spotPixmap, ptsClicked>>]_vars

\* C15's case: after clear() a list of metadata was refused, the default pen having
\* been changed before
C15_Witness ==
    /\ op.name = "setPointData"
    /\ op.list
    /\ dataNone
    /\ exc = MustSetDataFirst("setPointData")
    /\ opts.pen = mkPen("r")

\* C16: when setData or addPoints has returned without an exception, sigPlotChanged
\* is among the signals that call emitted, whether or not a dataset existed before.
C16_SuccessfulCallEmitsPlotChanged ==
    (op.name \in {"setData", "addPoints"} /\ exc = "") =>
        \E i \in 1..Len(emitted) : emitted[i] = PlotChanged

\* C17: while there is no dataset (after clear()) or the dataset has no points,
\* dataBounds returns (None, None) on either axis and boundingRect returns the
\* rectangle of size zero at the origin, whatever bounds had been cached before.
C17_EmptyDatasetHasNoBounds ==
    [][/\ (op'.name = "dataBounds" /\ (dataNone' \/ Len(data') = 0)) =>
              (exc' = "" /\ ret' = RetNonePair)
       /\ (op'.name = "boundingRect" /\ (dataNone' \/ Len(data') = 0)) =>
              (exc' = "" /\ ret' = RetRect(0, 0, 0, 0))]_vars

\* C17's case: dataBounds answered (None, None) for the y axis after clear(), the
\* item not being in pixel mode
C17_Witness ==
    /\ op.name = "dataBounds"
    /\ op.ax = 1
    /\ op.frac = 100
    /\ dataNone
    /\ ~opts.pxMode
    /\ ret = RetNonePair

\* the calls that change the item, and the calls that make the SpotItems on demand
Mutators ==
    {"setData", "addPoints", "clear", "setPen", "setBrush", "setSize", "setSymbol",
     "setPointData", "setPxMode", "setIdentical"}
SpotQueries == {"paint", "points", "pointsAt"}

\* C18: the SpotItems follow a dirty/valid cycle: (1) a mutator that returned leaves
\* spotsValid false, (2) spotsValid turns true only in a call that materialized the
\* SpotItems and returned without an exception, and (3) of two queries made one right
\* after the other, with no mutation between them, the second does not run the
\* materialization again, i.e. it finds spotsValid true.
C18_DirtyValidCycle ==
    [][/\ (op'.name \in Mutators /\ exc' = "") => ~spotsValid'
       /\ (~spotsValid /\ spotsValid') =>
              (op'.name \in SpotQueries \cup {"mouseClickEvent"} /\ exc' = "")
       /\ (op.name \in SpotQueries /\ op'.name \in SpotQueries) => spotsValid]_vars

\* what dataBounds(ax) computes from the current rows, sizes and pxMode when nothing
\* is cached
FreshBounds(ax) == dataBounds([Self EXCEPT !.bounds = <<<<>>, <<>>>>], ax, 100).ret

\* C19: every call dataBounds(ax, 1.0) returns what it would compute with an empty
\* cache from the rows, sizes and pxMode of the state it is called in: the cached
\* bounds are never stale.
C19_CachedBoundsNeverStale ==
    [][(op'.name = "dataBounds" /\ op'.frac = 100) => ret' = FreshBounds(op'.ax)]_vars

\* the symbol codes for which SpotPixmap raises the unknown-symbol exception
Unrecognized(symbol) ==
    SpotPixmap_setSymbol(symbol).exc = "Exception: Unknown spot symbol"

\* C20: setSymbol called with one symbol code that is not recognized raises the
\* unknown-symbol exception in that call and leaves the default symbol and the
\* symbol column unchanged, and no later paint, points or pointsAt raises the
\* unknown-symbol exception.
C20_UnknownSymbolRefusedAtOnce ==
    [][/\ (op'.name = "setSymbol" /\ ~op'.list /\ Unrecognized(op'.symbol)) =>
              /\ exc' = "Exception: Unknown spot symbol"
              /\ UNCHANGED <<opts, data>>
       /\ op'.name \in SpotQueries => exc' # "Exception: Unknown spot symbol"]_vars

\* the value a row has in a column, or the collection's default where the row holds
\* the column's inherit sentinel
OwnOrDefault(row, col) ==
    CASE col = "size" -> IF row.size < 0 THEN opts.size ELSE row.size
      [] col = "pen" -> IF row.pen = None THEN opts.pen ELSE row.pen
      [] col = "brush" -> IF row.brush = None THEN opts.brush ELSE row.brush
      [] col = "symbol" -> IF row.symbol = "" THEN opts.symbol ELSE row.symbol

\* the metadata of row i, None (the fallback of a collection without opts['data'])
\* where it has none
MetadataOf(i) ==
    IF pointData.kind = "list" /\ i <= Len(pointData.vals) THEN pointData.vals[i]
    ELSE None

\* C21: while the SpotItems are valid and identical is off, the SpotItem of each row i
\* is at (x_i, y_i), reports the row's own size, pen and brush, or the collection's
\* default where the row holds the sentinel, is drawn with the path of the row's own
\* symbol or of the default symbol, and carries the metadata of row i.
C21_MarkersResolveDefaults ==
    (spotsValid /\ ~dataNone /\ ~opts.identical) =>
        \A i \in 1..Len(data) :
            /\ SpotOfRow(data[i]).x = data[i].x
            /\ SpotOfRow(data[i]).y = data[i].y
            /\ SpotItem_size(SpotOfRow(data[i])) = OwnOrDefault(data[i], "size")
            /\ SpotItem_pen(SpotOfRow(data[i])) = OwnOrDefault(data[i], "pen")
            /\ SpotItem_brush(SpotOfRow(data[i])) = OwnOrDefault(data[i], "brush")
            /\ SpotItem_path(SpotOfRow(data[i]))
                 = SpotPixmap_setSymbol(OwnOrDefault(data[i], "symbol")).path
            /\ SpotOfRow(data[i]).data = MetadataOf(i)

\* C21's case: two rows materialized with identical off, the first with a size of
\* its own, the second inheriting the size, both with metadata and inheriting the
\* default brush and the changed default pen and symbol
C21_Witness ==
    /\ op.name = "points"
    /\ exc = ""
    /\ spotsValid
    /\ ~opts.identical
    /\ Len(data) = 2
    /\ data[1].size = 4
    /\ data[2].size < 0
    /\ data[2].symbol = ""
    /\ data[2].pen = None
    /\ data[2].brush = None
    /\ opts.symbol = "2"
    /\ opts.pen = mkPen("r")
    /\ pointData = PDList(<<"a", "a">>)

\* the place of the SpotItem with identity id in the sequence ss
PlaceOf(ss, id) == CHOOSE k \in 1..Len(ss) : ss[k].id = id

\* C22: the SpotItems pointsAt returns are in order of non-increasing z value, and
\* of two with the same z value the one found first, i.e. the one earlier in
\* self.spots, comes first.
C22_PointsAtTopmostFirst ==
    [][(op'.name = "pointsAt" /\ exc' = "") =>
          \A i, j \in 1..Len(ret'.spots) :
              i < j =>
                  /\ ret'.spots[i].z >= ret'.spots[j].z
                  /\ ret'.spots[i].z = ret'.spots[j].z =>
                         PlaceOf(spots', ret'.spots[i].id) < PlaceOf(spots', ret'.spots[j].id)]_vars

\* C22's case: pointsAt returned two SpotItems, the one made second raised above the
\* one made first
C22_Witness ==
    /\ op.name = "pointsAt"
    /\ exc = ""
    /\ Len(ret.spots) = 2
    /\ ret.spots[1].z > ret.spots[2].z
    /\ ret.spots[1].index > ret.spots[2].index

\* C23: setting the pen (or the brush) of the SpotItem self.spots[k] succeeds, makes
\* that SpotItem report the new pen (or brush), and leaves the pen and the brush
\* every other SpotItem reports as they were, whether or not the SpotItems share one
\* SpotPixmap.
C23_SpotPenAndBrushAreItsOwn ==
    [][/\ op'.name = "SpotItem.setPen" =>
              /\ exc' = ""
              /\ SpotItem_pen(spots'[op'.n]) = mkPen(op'.call.kw.pen[1].v)
       /\ op'.name = "SpotItem.setBrush" =>
              /\ exc' = ""
              /\ SpotItem_brush(spots'[op'.n]) = mkBrush(op'.call.kw.brush[1].v)
       /\ op'.name \in {"SpotItem.setPen", "SpotItem.setBrush"} =>
              /\ Len(spots') = Len(spots)
              /\ \A j \in 1..Len(spots) :
                    j # op'.n =>
                        /\ SpotItem_pen(spots'[j]) = SpotItem_pen(spots[j])
                        /\ SpotItem_brush(spots'[j]) = SpotItem_brush(spots[j])]_vars

\* C24: when points() returns, for every row i its i-th element has index i (counted
\* from 0, as the rows are) and is the SpotItem the row refers to, and every
\* SpotItem returned has the index of an existing row.
C24_PointsMatchRows ==
    [][(op'.name = "points" /\ exc' = "") =>
          /\ \A i \in 1..Len(data') :
                /\ i <= Len(ret'.spots)
                /\ ret'.spots[i].index = i - 1
                /\ ret'.spots[i].id = data'[i].spot
          /\ \A k \in 1..Len(ret'.spots) : ret'.spots[k].index \in 0..(Len(data') - 1)]_vars

====
